---- MODULE Spec2Model ----
\* A model of sender.py: a script that opens one TCP connection and then, once
\* per second and forever, sends "Hello <counter> at <time>" over it.
\*
\* The script is one sequential process; pc is the statement it is about to
\* execute.  The environment contributes the outcome of each system call
\* (success or an exception), the wall clock, SIGINT (KeyboardInterrupt, which
\* CPython raises between any two statements and inside blocking calls), and
\* the user running the script again once a process has ended.
EXTENDS Integers, Sequences, FiniteSets, TLC

VARIABLES
    pc,          \* the statement the process executes next, or "done"
    sockOpen,    \* the socket s holds an open descriptor
    connects,    \* number of s.connect() calls made by this process
    counter,     \* the variable counter (Unbound before line 10)
    message,     \* the variable message, a text (<<>> before line 12)
    sent,        \* byte strings whose s.sendall() has returned, in order
    wire,        \* every byte this process has handed to the connection
    sleeps,      \* number of time.sleep(1) calls that have returned
    sendAt,      \* the clock at each return of s.sendall()
    now,         \* the clock, in tenths of a second
    exitReason,  \* why the process ended ("none" while it runs)
    runs,        \* number of processes started so far
    prevSent     \* messages sent by the processes that ran before this one

vars == <<pc, sockOpen, connects, counter, message, sent, wire, sleeps,
          sendAt, now, exitReason, runs, prevSent>>

---------------------------------------------------------------------------
\* Bounds of the model.

MaxCounter == 3     \* the loop body is entered only while counter < MaxCounter
MaxOversleep == 1   \* time.sleep(1) returns at most this many tenths late
MaxRuns == 2        \* the script is run at most this many times
StartTimes == {5, 98}   \* the clock values at which a process may start

---------------------------------------------------------------------------
\* Values of the program.

Unbound == -1       \* counter before the assignment of line 10
Interval == 10      \* time.sleep(1): one second, in tenths

PCs == {"socket", "connect", "print_connected", "init", "build", "send",
        "print_sent", "incr", "sleep", "done"}

ExitReasons == {"none", "OSError", "ConnectionError", "WriteError",
                "StdoutError", "Interrupt"}

\* ---- text formatting and encoding ----

DigitChar == <<"0", "1", "2", "3", "4", "5", "6", "7", "8", "9">>

\* str(n) for an integer n >= 0: its base-10 digits, most significant first.
RECURSIVE Digits(_)
Digits(n) ==
    IF n < 10 THEN <<DigitChar[n + 1]>>
    ELSE Digits(n \div 10) \o <<DigitChar[(n % 10) + 1]>>

\* str(time.time()) for a clock of t tenths of a second: "<seconds>.<tenth>".
FloatRepr(t) == Digits(t \div 10) \o <<".">> \o Digits(t % 10)

\* f"Hello {counter} at {time.time()}"
Format(c, t) ==
    <<"H", "e", "l", "l", "o", " ">> \o Digits(c) \o
    <<" ", "a", "t", " ">> \o FloatRepr(t)

\* The UTF-8 code of each character the message can hold (all are ASCII).
Ord(ch) ==
    CASE ch = " " -> 32
      [] ch = "." -> 46
      [] ch = "0" -> 48
      [] ch = "1" -> 49
      [] ch = "2" -> 50
      [] ch = "3" -> 51
      [] ch = "4" -> 52
      [] ch = "5" -> 53
      [] ch = "6" -> 54
      [] ch = "7" -> 55
      [] ch = "8" -> 56
      [] ch = "9" -> 57
      [] ch = "H" -> 72
      [] ch = "a" -> 97
      [] ch = "e" -> 101
      [] ch = "l" -> 108
      [] ch = "o" -> 111
      [] ch = "t" -> 116

\* message.encode(): the UTF-8 bytes of the text, nothing added.
Encode(text) == [i \in 1..Len(text) |-> Ord(text[i])]

\* The first n bytes of s: what a write that stopped early has delivered.
Prefix(s, n) == SubSeq(s, 1, n)

---------------------------------------------------------------------------
\* The state after the interpreter has started and before line 7 runs.

Init ==
    /\ pc = "socket"
    /\ sockOpen = FALSE
    /\ connects = 0
    /\ counter = Unbound
    /\ message = <<>>
    /\ sent = <<>>
    /\ wire = <<>>
    /\ sleeps = 0
    /\ sendAt = <<>>
    /\ now \in StartTimes
    /\ exitReason = "none"
    /\ runs = 1
    /\ prevSent = 0

\* Terminate without the with block: the exception ends the process and the
\* descriptor is left as it was.
TerminateLeaking(reason) ==
    /\ pc' = "done"
    /\ sockOpen' = sockOpen
    /\ exitReason' = reason

\* An exception leaves the with block of line 7: its __exit__ closes the
\* socket, and nothing catches the exception, so the process ends.
Terminate(reason) ==
    /\ pc' = "done"
    /\ sockOpen' = FALSE
    /\ exitReason' = reason

\* Line 7: socket.socket(AF_INET, SOCK_STREAM) returns a socket.
CreateSocket ==
    /\ pc = "socket"
    /\ sockOpen' = TRUE
    /\ pc' = "connect"
    /\ UNCHANGED <<connects, counter, message, sent, wire, sleeps, sendAt,
                   now, exitReason, runs, prevSent>>

\* Line 7: socket.socket() raises OSError (no descriptor left); no socket
\* exists and the with block is never entered.
CreateFail ==
    /\ pc = "socket"
    /\ Terminate("OSError")
    /\ UNCHANGED <<connects, counter, message, sent, wire, sleeps, sendAt,
                   now, runs, prevSent>>

\* Line 8: s.connect((HOST, PORT)) returns.
ConnectOK ==
    /\ pc = "connect"
    /\ connects' = connects + 1
    /\ pc' = "print_connected"
    /\ UNCHANGED <<sockOpen, counter, message, sent, wire, sleeps, sendAt,
                   now, exitReason, runs, prevSent>>

\* ConnectFail with the exception swallowed: the script goes on to line 9.
ConnectFailIgnored ==
    /\ pc = "connect"
    /\ connects' = connects + 1
    /\ exitReason' = "ConnectionError"
    /\ pc' = "print_connected"
    /\ UNCHANGED <<sockOpen, counter, message, sent, wire, sleeps, sendAt,
                   now, runs, prevSent>>

\* Line 8: s.connect() raises (refused, unreachable).
ConnectFail ==
    /\ pc = "connect"
    /\ connects' = connects + 1
    /\ Terminate("ConnectionError")
    /\ UNCHANGED <<counter, message, sent, wire, sleeps, sendAt, now, runs,
                   prevSent>>

\* Line 9: print("Connected to ...").
PrintConnected ==
    /\ pc = "print_connected"
    /\ pc' = "init"
    /\ UNCHANGED <<sockOpen, connects, counter, message, sent, wire, sleeps,
                   sendAt, now, exitReason, runs, prevSent>>

\* InitCounter resuming from a count kept across processes.
InitCounterPersisted ==
    /\ pc = "init"
    /\ counter' = prevSent
    /\ pc' = "build"
    /\ UNCHANGED <<sockOpen, connects, message, sent, wire, sleeps, sendAt,
                   now, exitReason, runs, prevSent>>

\* Line 10: counter = 0.
InitCounter ==
    /\ pc = "init"
    /\ counter' = 0
    /\ pc' = "build"
    /\ UNCHANGED <<sockOpen, connects, message, sent, wire, sleeps, sendAt,
                   now, exitReason, runs, prevSent>>

\* Build under "while counter < 2": the loop ends by itself.
BuildUntilTwo ==
    /\ pc = "build"
    /\ counter < MaxCounter
    /\ IF counter < 2
       THEN /\ message' = Format(counter, now)
            /\ pc' = "send"
            /\ sockOpen' = sockOpen
       ELSE /\ message' = message
            /\ pc' = "done"
            /\ sockOpen' = FALSE
    /\ UNCHANGED <<connects, counter, sent, wire, sleeps, sendAt, now,
                   exitReason, runs, prevSent>>

\* Lines 11-12: while True is entered and the message is built from the
\* counter and the clock.
Build ==
    /\ pc = "build"
    /\ counter < MaxCounter
    /\ message' = Format(counter, now)
    /\ pc' = "send"
    /\ UNCHANGED <<sockOpen, connects, counter, sent, wire, sleeps, sendAt,
                   now, exitReason, runs, prevSent>>

\* SendOK writing a newline after each message.
SendOKDelimited ==
    /\ pc = "send"
    /\ wire' = wire \o Encode(message) \o <<10>>
    /\ sent' = Append(sent, Encode(message))
    /\ sendAt' = Append(sendAt, now)
    /\ pc' = "print_sent"
    /\ UNCHANGED <<sockOpen, connects, counter, message, sleeps, now,
                   exitReason, runs, prevSent>>

\* Line 13: s.sendall(message.encode()) returns: every byte was written.
SendOK ==
    /\ pc = "send"
    /\ wire' = wire \o Encode(message)
    /\ sent' = Append(sent, Encode(message))
    /\ sendAt' = Append(sendAt, now)
    /\ pc' = "print_sent"
    /\ UNCHANGED <<sockOpen, connects, counter, message, sleeps, now,
                   exitReason, runs, prevSent>>

\* SendFail with the error caught and the same message sent again.
SendFailRetried ==
    /\ pc = "send"
    /\ \E n \in 0..(Len(Encode(message)) - 1) :
           wire' = wire \o Prefix(Encode(message), n)
    /\ exitReason' = "WriteError"
    /\ UNCHANGED <<pc, sockOpen, connects, counter, message, sent, sleeps,
                   sendAt, now, runs, prevSent>>

\* SendFail with the counter incremented before the send.
SendFailCounted ==
    /\ pc = "send"
    /\ \E n \in 0..(Len(Encode(message)) - 1) :
           wire' = wire \o Prefix(Encode(message), n)
    /\ counter' = counter + 1
    /\ Terminate("WriteError")
    /\ UNCHANGED <<connects, message, sent, sleeps, sendAt, now, runs,
                   prevSent>>

\* SendFail with the error caught and the connection opened again.
SendFailReconnects ==
    /\ pc = "send"
    /\ \E n \in 0..(Len(Encode(message)) - 1) :
           wire' = wire \o Prefix(Encode(message), n)
    /\ pc' = "connect"
    /\ UNCHANGED <<sockOpen, connects, counter, message, sent, sleeps,
                   sendAt, now, exitReason, runs, prevSent>>

\* Line 13: s.sendall() raises (peer closed, stream error).  sendall loops
\* over send(); the error comes from a send() that wrote nothing, after
\* earlier ones may have written some of the bytes, never all of them.
SendFail ==
    /\ pc = "send"
    /\ \E n \in 0..(Len(Encode(message)) - 1) :
           wire' = wire \o Prefix(Encode(message), n)
    /\ Terminate("WriteError")
    /\ UNCHANGED <<connects, counter, message, sent, sleeps, sendAt, now,
                   runs, prevSent>>

\* Line 14: print("Sent:", message).
PrintSent ==
    /\ pc = "print_sent"
    /\ pc' = "incr"
    /\ UNCHANGED <<sockOpen, connects, counter, message, sent, wire, sleeps,
                   sendAt, now, exitReason, runs, prevSent>>

\* Lines 9 and 14: print() raises because stdout cannot be written.
PrintFail ==
    /\ pc \in {"print_connected", "print_sent"}
    /\ Terminate("StdoutError")
    /\ UNCHANGED <<connects, counter, message, sent, wire, sleeps, sendAt,
                   now, runs, prevSent>>

\* Increment by two.
IncrementByTwo ==
    /\ pc = "incr"
    /\ counter' = counter + 2
    /\ pc' = "sleep"
    /\ UNCHANGED <<sockOpen, connects, message, sent, wire, sleeps, sendAt,
                   now, exitReason, runs, prevSent>>

\* Line 15: counter += 1.
Increment ==
    /\ pc = "incr"
    /\ counter' = counter + 1
    /\ pc' = "sleep"
    /\ UNCHANGED <<sockOpen, connects, message, sent, wire, sleeps, sendAt,
                   now, exitReason, runs, prevSent>>

\* Sleep returning before the second is over.
SleepReturnsEarly ==
    /\ pc = "sleep"
    /\ \E late \in 0..MaxOversleep : now' = now + late
    /\ sleeps' = sleeps + 1
    /\ pc' = "build"
    /\ UNCHANGED <<sockOpen, connects, counter, message, sent, wire, sendAt,
                   exitReason, runs, prevSent>>

\* Line 16: time.sleep(1) returns, one second later or a little more, and
\* the loop goes back to line 12.
Sleep ==
    /\ pc = "sleep"
    /\ \E late \in 0..MaxOversleep : now' = now + Interval + late
    /\ sleeps' = sleeps + 1
    /\ pc' = "build"
    /\ UNCHANGED <<sockOpen, connects, counter, message, sent, wire, sendAt,
                   exitReason, runs, prevSent>>

\* SIGINT: KeyboardInterrupt is raised at the statement the process is at.
\* Inside sendall it is raised after a send() returned, which may be the
\* last one, so any part of the message, or all of it, may have been written.
Interrupt ==
    /\ pc # "done"
    /\ IF pc = "send"
       THEN \E n \in 0..Len(Encode(message)) :
                wire' = wire \o Prefix(Encode(message), n)
       ELSE wire' = wire
    /\ Terminate("Interrupt")
    /\ UNCHANGED <<connects, counter, message, sent, sleeps, sendAt, now,
                   runs, prevSent>>

\* The script is run again: a fresh interpreter, with no variable bound and
\* no socket, at whatever time the user starts it.
Restart ==
    /\ pc = "done"
    /\ runs < MaxRuns
    /\ runs' = runs + 1
    /\ prevSent' = prevSent + Len(sent)
    /\ pc' = "socket"
    /\ sockOpen' = FALSE
    /\ connects' = 0
    /\ counter' = Unbound
    /\ message' = <<>>
    /\ sent' = <<>>
    /\ wire' = <<>>
    /\ sleeps' = 0
    /\ sendAt' = <<>>
    /\ now' \in StartTimes
    /\ exitReason' = "none"

\* The statements that complete normally.
Step ==
    \/ CreateSocket
    \/ ConnectOK
    \/ PrintConnected
    \/ InitCounter
    \/ Build
    \/ SendOK
    \/ PrintSent
    \/ Increment
    \/ Sleep

Next ==
    \/ CreateSocket
    \/ CreateFail
    \/ ConnectOK
    \/ ConnectFail
    \/ PrintConnected
    \/ InitCounter
    \/ Build
    \/ SendOK
    \/ SendFail
    \/ PrintSent
    \/ PrintFail
    \/ Increment
    \/ Sleep
    \/ Interrupt
    \/ Restart

Spec == Init /\ [][Next]_vars

\* The interpreter runs the one thread of the script: a statement that can
\* complete does, unless an exception or a signal ends the process first.
FairSpec == Spec /\ WF_vars(Step)

TypeOK ==
    /\ pc \in PCs
    /\ sockOpen \in BOOLEAN
    /\ connects \in 0..1
    /\ counter \in {Unbound} \cup (0..MaxCounter)
    /\ exitReason \in ExitReasons
    /\ runs \in 1..MaxRuns
    /\ sleeps \in 0..MaxCounter
    /\ prevSent \in Nat
    /\ now \in Nat

---------------------------------------------------------------------------
\* What a receiver reads off the connection.

\* The number written in base 10 in bytes i, i+1, ... of b, up to the first
\* byte that is not a digit.
RECURSIVE ParseNat(_, _, _)
ParseNat(b, i, acc) ==
    IF i > Len(b) \/ b[i] \notin 48..57 THEN acc
    ELSE ParseNat(b, i + 1, acc * 10 + (b[i] - 48))

\* b starts with "Hello " followed by a digit.
HasHeader(b) ==
    /\ Len(b) >= 7
    /\ Prefix(b, 6) = <<72, 101, 108, 108, 111, 32>>
    /\ b[7] \in 48..57

\* The sequence number a message carries.
SeqOf(b) == ParseNat(b, 7, 0)

\* The number of digits in bytes i, i+1, ... of b before the first byte that
\* is not a digit.
RECURSIVE DigitRun(_, _)
DigitRun(b, i) ==
    IF i > Len(b) \/ b[i] \notin 48..57 THEN 0 ELSE 1 + DigitRun(b, i + 1)

\* The timestamp a message carries, in tenths of a second: the number after
\* "Hello <sequence> at ", read as <seconds>.<tenth>.
TimeOf(b) ==
    LET secAt == 7 + DigitRun(b, 7) + 4
        tenthAt == secAt + DigitRun(b, secAt) + 1
    IN  ParseNat(b, secAt, 0) * 10 + ParseNat(b, tenthAt, 0)

\* b is the encoding of one whole message: formatting the sequence number
\* and the timestamp read from it gives b back, byte for byte.
IsMessage(b) == HasHeader(b) /\ b = Encode(Format(SeqOf(b), TimeOf(b)))

\* The byte strings of ss, one after the other.
RECURSIVE Flatten(_)
Flatten(ss) == IF ss = <<>> THEN <<>> ELSE Head(ss) \o Flatten(Tail(ss))

\* The lifecycle state of the sender.
Phase ==
    IF pc \in {"socket", "connect"} THEN "CONNECTING"
    ELSE IF pc = "done" THEN "TERMINATED"
    ELSE "SENDING"

---------------------------------------------------------------------------
\* C1: the k-th message whose send completed (counting from 0) carries
\* sequence number k: the numbers sent are 0, 1, ..., N-1 in order, without
\* gap or duplicate, in every state, also after the run failed or was
\* interrupted.
C1_SequenceInOrder ==
    \A k \in 1..Len(sent) : HasHeader(sent[k]) /\ SeqOf(sent[k]) = k - 1

C1_Witness ==
    /\ Len(sent) = 2
    /\ pc = "done"
    /\ exitReason = "WriteError"

\* C2: a process whose connect failed has ended, has made exactly one
\* connect attempt and has sent nothing; bytes are handed to the connection
\* only by a process whose one connect succeeded.
C2_ConnectFailureSendsNothing ==
    /\ exitReason = "ConnectionError" =>
           /\ pc = "done"
           /\ connects = 1
           /\ sent = <<>>
           /\ wire = <<>>
           /\ counter = Unbound
    /\ (pc = "send" \/ sent # <<>> \/ wire # <<>>) =>
           /\ connects = 1
           /\ exitReason # "ConnectionError"

C2_Witness ==
    /\ exitReason = "ConnectionError"
    /\ pc = "done"
    /\ runs = 1

\* C3: a failed send ends the process at once, with the counter not
\* incremented for the failed message, and as long as that process is the
\* latest one, nothing more is sent, counted or connected.
C3_WriteFailureIsFatal ==
    [][ /\ exitReason' = "WriteError" =>
               /\ pc' = "done"
               /\ ~sockOpen'
               /\ counter' = Len(sent')
        /\ (exitReason = "WriteError" /\ runs' = runs) =>
               UNCHANGED <<pc, sent, wire, counter, connects, sockOpen>>
      ]_vars

C3_Witness ==
    /\ exitReason = "WriteError"
    /\ Len(sent) = 1
    /\ Len(wire) > Len(sent[1])

\* C4: in every state in which the process has ended, whatever ended it, the
\* socket is closed; an open socket belongs to a running process.
C4_SocketClosedOnExit ==
    /\ pc = "done" => ~sockOpen
    /\ sockOpen => pc \notin {"socket", "done"}

C4_Witness ==
    /\ pc = "done"
    /\ exitReason = "Interrupt"
    /\ connects = 1
    /\ counter # Unbound
    /\ Len(sent) = counter + 1

\* C5: the loop runs build, send, increment, sleep: the first send has no
\* sleep before it, every later send has exactly one completed sleep since the
\* send before it, and two successive sends are at least Interval apart.
C5_SleepBetweenSends ==
    /\ pc \in {"socket", "connect", "print_connected", "init"} =>
           sleeps = 0 /\ sent = <<>>
    /\ pc \in {"build", "send"} => Len(sent) = sleeps /\ counter = sleeps
    /\ pc \in {"print_sent", "incr"} =>
           Len(sent) = sleeps + 1 /\ counter = sleeps
    /\ pc = "sleep" => Len(sent) = sleeps + 1 /\ counter = sleeps + 1
    /\ sleeps <= Len(sent) /\ Len(sent) <= sleeps + 1
    /\ Len(sendAt) = Len(sent)
    /\ \A k \in 1..(Len(sendAt) - 1) : sendAt[k + 1] - sendAt[k] >= Interval

C5_Witness ==
    /\ Len(sent) = 3
    /\ sleeps = 2
    /\ sendAt[3] - sendAt[2] > Interval

\* C6: the first message a process sends carries sequence 0, and a process
\* reaches its loop with the counter at 0, however many messages the earlier
\* processes sent.
C6_FreshStartAtZero ==
    /\ Len(sent) >= 1 => SeqOf(sent[1]) = 0
    /\ (pc = "build" /\ sent = <<>>) => counter = 0

C6_Witness ==
    /\ runs = 2
    /\ prevSent = 2
    /\ Len(sent) = 1

\* C7: within one process the counter, once set to 0, changes only by +1 and
\* only when the send of the message it numbers has completed; at the loop
\* head it equals the number of completed sends; a failed send leaves it as
\* it was.
C7_CounterCountsSends ==
    [][ runs' = runs =>
          /\ \/ counter' = counter
             \/ counter = Unbound /\ counter' = 0 /\ sent = <<>>
             \/ /\ counter # Unbound
                /\ counter' = counter + 1
                /\ Len(sent) = counter + 1
                /\ sent' = sent
          /\ pc' = "build" => counter' = Len(sent')
          /\ exitReason' = "WriteError" => counter' = counter /\ sent' = sent
      ]_vars

C7_Witness ==
    /\ pc = "build"
    /\ counter = 2
    /\ Len(sent) = 2

\* C8: a process is CONNECTING, then SENDING: SENDING is entered only from
\* CONNECTING, by the one connect of the process, is never left for
\* CONNECTING, and is left only when a failure or an interrupt ends the
\* process.
C8_Lifecycle ==
    [][ /\ connects' <= 1
        /\ Phase = "SENDING" => Phase' \in {"SENDING", "TERMINATED"}
        /\ (Phase' = "SENDING" /\ Phase # "SENDING") =>
               /\ Phase = "CONNECTING"
               /\ connects = 0
               /\ connects' = 1
        /\ (Phase = "SENDING" /\ Phase' = "TERMINATED") =>
               exitReason' \in {"WriteError", "StdoutError", "Interrupt"}
      ]_vars

C8_Witness ==
    /\ Phase = "SENDING"
    /\ connects = 1
    /\ sleeps = 2

\* C9: a process ends only by an I/O error or an interrupt, never by the loop
\* finishing; and a process that is started either is ended by one of those or
\* sends the message of every sequence number below MaxCounter.
C9_RunsUntilStopped ==
    /\ [](pc = "done" =>
            exitReason \in {"OSError", "ConnectionError", "WriteError",
                            "StdoutError", "Interrupt"})
    /\ \A n \in 0..(MaxCounter - 1) :
           (pc = "socket") ~>
               (pc = "done" \/ \E k \in 1..Len(sent) : SeqOf(sent[k]) = n)

C9_Witness ==
    /\ Len(sent) = MaxCounter
    /\ exitReason = "none"
    /\ SeqOf(sent[MaxCounter]) = MaxCounter - 1

====
